---- MODULE Spec2Model ----
(***************************************************************************)
(* Model of resourceTimeCalculator.py: the paginated event fetcher         *)
(* (get_all_events), the duration analyzer                                 *)
(* (find_resources_with_longest_time) and the report glue                  *)
(* (analyze_events, calculate_times).                                      *)
(*                                                                         *)
(* Timestamps are whole seconds counted from an arbitrary origin, so the   *)
(* total_seconds() of a difference of two timestamps is their integer      *)
(* difference.  A Python dict is a sequence of <<key, value>> pairs in     *)
(* insertion order.  A raised exception is a terminal value of pc.         *)
(***************************************************************************)
EXTENDS Integers, Sequences, FiniteSets

VARIABLES
    entry,            \* the function the run was started with
    pc,               \* position of the run, or the exception that ended it
    operation,        \* the operation argument
    next_token,       \* get_all_events: next_token
    all_events,       \* get_all_events: all_events
    requests,         \* history: the token sent with each describe_stack_events call
    responses,        \* history: the responses the service gave
    events,           \* the events argument of find_resources_with_longest_time
    idx,              \* number of events the for loop has processed
    resource_times,   \* find_resources_with_longest_time: resource_times
    sorted_resources, \* find_resources_with_longest_time: the returned list
    output            \* what has been printed

vars == <<entry, pc, operation, next_token, all_events, requests, responses,
          events, idx, resource_times, sorted_resources, output>>

---------------------------------------------------------------------------
(* Bounds of the model *)

MaxTime == 1
MaxEvents == 4
MaxRequests == 3
MaxPageLen == 1
MaxT0 == 2

---------------------------------------------------------------------------
(* Values *)

CREATE_IN_PROGRESS == "CREATE_IN_PROGRESS"
CREATE_COMPLETE == "CREATE_COMPLETE"
DELETE_IN_PROGRESS == "DELETE_IN_PROGRESS"
DELETE_COMPLETE == "DELETE_COMPLETE"

\* Python's None where a timestamp is expected; every timestamp is >= 0.
None == -1

\* datetime.min: earlier than every timestamp of the model.
datetime_min == -1000

\* Python's None where a continuation token is expected.
NoToken == "None"

Resources == {"R1", "R2"}
Statuses == {CREATE_IN_PROGRESS, CREATE_COMPLETE, DELETE_IN_PROGRESS,
             DELETE_COMPLETE, "UPDATE_COMPLETE"}
Timestamps == 0..MaxTime
Operations == {"create", "delete", "update"}
ValidOperations == {"create", "delete"}

StackEvent == [LogicalResourceId : Resources, ResourceStatus : Statuses,
               Timestamp : Timestamps]

Event(r, s, t) == [LogicalResourceId |-> r, ResourceStatus |-> s, Timestamp |-> t]

SeqsUpTo(S, n) == UNION {[1..k -> S] : k \in 0..n}

---------------------------------------------------------------------------
(* dict operations on a sequence of <<key, value>> pairs *)

Keys(d) == {d[i][1] : i \in DOMAIN d}

In(k, d) == k \in Keys(d)

Lookup(d, k) == d[CHOOSE i \in DOMAIN d : d[i][1] = k][2]

\* d[k][f] = v, for a key the dict has
SetField(d, k, f, v) ==
    [i \in DOMAIN d |-> IF d[i][1] = k THEN <<k, [d[i][2] EXCEPT ![f] = v]>> ELSE d[i]]

\* d[k] = rec, for a key the dict does not have
Insert(d, k, rec) == Append(d, <<k, rec>>)

\* rec.get(f, default): the default is used only when the key f is absent
DictGet(rec, f, default) == IF f \in DOMAIN rec THEN rec[f] ELSE default

---------------------------------------------------------------------------
(* find_resources_with_longest_time *)

\* The pair of statuses the operation selects; <<>> where the code raises ValueError.
StatusPair(op) ==
    IF op = "create" THEN <<CREATE_IN_PROGRESS, CREATE_COMPLETE>>
    ELSE IF op = "delete" THEN <<DELETE_IN_PROGRESS, DELETE_COMPLETE>>
    ELSE <<>>

\* a < b on timestamps: Python raises TypeError when an operand is None
Less(a, b) ==
    IF a = None \/ b = None THEN "TypeError"
    ELSE IF a < b THEN "True" ELSE "False"

\* resource_times.get(resource_id, {}).get("start_time")
StartTimeOf(rt, k) == IF In(k, rt) THEN DictGet(Lookup(rt, k), "start_time", None) ELSE None

\* the condition of the first if of the in-progress branch; `or` short-circuits
InProgressCond(rt, e) ==
    IF In(e.LogicalResourceId, rt) THEN "True"
    ELSE Less(e.Timestamp, StartTimeOf(rt, e.LogicalResourceId))

\* the in-progress branch: [raise, rt]
InProgressBranch(rt, e) ==
    LET k == e.LogicalResourceId
        c == InProgressCond(rt, e)
    IN  IF c = "TypeError" THEN [raise |-> "TypeError", rt |-> rt]
        ELSE IF c = "True"
             THEN IF In(k, rt)
                  THEN [raise |-> "", rt |-> SetField(rt, k, "start_time", e.Timestamp)]
                  ELSE [raise |-> "KeyError", rt |-> rt]
        ELSE IF ~In(k, rt)
             THEN [raise |-> "",
                   rt |-> Insert(rt, k, [start_time |-> e.Timestamp, end_time |-> None])]
        ELSE [raise |-> "", rt |-> rt]

\* a faulty variant of CompleteBranch: an end_time is replaced only by a later timestamp
CompleteBranchLatestWins(rt, e) ==
    LET k == e.LogicalResourceId
    IN  IF In(k, rt)
        THEN [raise |-> "",
              rt |-> IF Lookup(rt, k).end_time < e.Timestamp
                     THEN SetField(rt, k, "end_time", e.Timestamp) ELSE rt]
        ELSE [raise |-> "",
              rt |-> Insert(rt, k, [start_time |-> None, end_time |-> e.Timestamp])]

\* a faulty variant of CompleteBranch: the record is replaced whole, start_time lost
CompleteBranchResetsStart(rt, e) ==
    LET k == e.LogicalResourceId
        fresh == [start_time |-> None, end_time |-> e.Timestamp]
    IN  IF In(k, rt)
        THEN [raise |-> "",
              rt |-> [i \in DOMAIN rt |-> IF rt[i][1] = k THEN <<k, fresh>> ELSE rt[i]]]
        ELSE [raise |-> "", rt |-> Insert(rt, k, fresh)]

\* a faulty variant of CompleteBranch: a complete event creates no record
CompleteBranchNoCreate(rt, e) ==
    LET k == e.LogicalResourceId
    IN  IF In(k, rt)
        THEN [raise |-> "", rt |-> SetField(rt, k, "end_time", e.Timestamp)]
        ELSE [raise |-> "", rt |-> rt]

\* the complete branch: [raise, rt]
CompleteBranch(rt, e) ==
    LET k == e.LogicalResourceId
    IN  IF In(k, rt)
        THEN [raise |-> "", rt |-> SetField(rt, k, "end_time", e.Timestamp)]
        ELSE [raise |-> "",
              rt |-> Insert(rt, k, [start_time |-> None, end_time |-> e.Timestamp])]

\* a faulty variant of LoopBody: the statuses of both operations are taken,
\* whichever operation is selected
LoopBodyAnyOperation(rt, op, e) ==
    IF StatusPair(op) = <<>> THEN [raise |-> "ValueError", rt |-> rt]
    ELSE IF e.ResourceStatus \in {CREATE_IN_PROGRESS, DELETE_IN_PROGRESS}
         THEN InProgressBranch(rt, e)
    ELSE IF e.ResourceStatus \in {CREATE_COMPLETE, DELETE_COMPLETE}
         THEN CompleteBranch(rt, e)
    ELSE [raise |-> "", rt |-> rt]

\* one iteration of the for loop over events: [raise, rt]
LoopBody(rt, op, e) ==
    LET sp == StatusPair(op)
    IN  IF sp = <<>> THEN [raise |-> "ValueError", rt |-> rt]
        ELSE IF e.ResourceStatus = sp[1] THEN InProgressBranch(rt, e)
        ELSE IF e.ResourceStatus = sp[2] THEN CompleteBranch(rt, e)
        ELSE [raise |-> "", rt |-> rt]

\* (end_time - start_time).total_seconds(), for two timestamps
calculate_time_difference(start_time, end_time) == end_time - start_time

\* the subtraction raises TypeError when an operand is None
DurationRaises(times) ==
    \/ DictGet(times, "start_time", datetime_min) = None
    \/ DictGet(times, "end_time", datetime_min) = None

WithDuration(times) ==
    [start_time |-> times.start_time, end_time |-> times.end_time,
     duration |-> calculate_time_difference(DictGet(times, "start_time", datetime_min),
                                            DictGet(times, "end_time", datetime_min))]

\* index of the first record whose duration raises, 0 if none does
FirstRaising(rt) ==
    IF \E i \in DOMAIN rt : DurationRaises(rt[i][2])
    THEN CHOOSE i \in DOMAIN rt :
            /\ DurationRaises(rt[i][2])
            /\ \A j \in 1..(i - 1) : ~DurationRaises(rt[j][2])
    ELSE 0

\* the loop that sets times["duration"]: [raise, rt]; the records before the
\* first raising one have their duration when the exception leaves the loop
DurationLoop(rt) ==
    LET f == FirstRaising(rt)
    IN  [raise |-> IF f = 0 THEN "" ELSE "TypeError",
         rt |-> [i \in DOMAIN rt |->
                    IF f = 0 \/ i < f THEN <<rt[i][1], WithDuration(rt[i][2])>> ELSE rt[i]]]

\* a faulty variant of InsertSorted: x goes in front of the entries with an equal
\* duration, so equal durations end up in reverse order
RECURSIVE InsertSortedTiesReversed(_, _)
InsertSortedTiesReversed(s, x) ==
    IF s = <<>> THEN <<x>>
    ELSE IF Head(s)[2].duration > x[2].duration
         THEN <<Head(s)>> \o InsertSortedTiesReversed(Tail(s), x)
         ELSE <<x>> \o s

\* x placed in a list sorted by duration descending, behind every entry whose
\* duration is not smaller: equal durations keep their order (stable sort)
RECURSIVE InsertSorted(_, _)
InsertSorted(s, x) ==
    IF s = <<>> THEN <<x>>
    ELSE IF Head(s)[2].duration >= x[2].duration
         THEN <<Head(s)>> \o InsertSorted(Tail(s), x)
         ELSE <<x>> \o s

\* a faulty variant of SortedByDuration: without reverse=True, the order is ascending
RECURSIVE InsertAscending(_, _)
InsertAscending(s, x) ==
    IF s = <<>> THEN <<x>>
    ELSE IF Head(s)[2].duration <= x[2].duration
         THEN <<Head(s)>> \o InsertAscending(Tail(s), x)
         ELSE <<x>> \o s

RECURSIVE SortedAscending(_)
SortedAscending(items) ==
    IF items = <<>> THEN <<>>
    ELSE InsertAscending(SortedAscending(SubSeq(items, 1, Len(items) - 1)),
                         items[Len(items)])

\* sorted(resource_times.items(), key=lambda x: x[1]["duration"], reverse=True)
RECURSIVE SortedByDuration(_)
SortedByDuration(items) ==
    IF items = <<>> THEN <<>>
    ELSE InsertSorted(SortedByDuration(SubSeq(items, 1, Len(items) - 1)),
                      items[Len(items)])

\* the for loop over a list of events, from the mapping rt: [raise, rt]
RECURSIVE RunLoop(_, _, _)
RunLoop(rt, op, evs) ==
    IF evs = <<>> THEN [raise |-> "", rt |-> rt]
    ELSE LET r == LoopBody(rt, op, Head(evs))
         IN  IF r.raise /= "" THEN r ELSE RunLoop(r.rt, op, Tail(evs))

\* the whole call: [raise, value], value the returned list
find_resources_with_longest_time(evs, op) ==
    LET l == RunLoop(<<>>, op, evs)
        d == DurationLoop(l.rt)
    IN  IF l.raise /= "" THEN [raise |-> l.raise, value |-> <<>>]
        ELSE IF d.raise /= "" THEN [raise |-> d.raise, value |-> <<>>]
        ELSE [raise |-> "", value |-> SortedByDuration(d.rt)]

\* for event in events: one iteration
ProcessEvent ==
    /\ pc = "for_events"
    /\ idx < Len(events)
    /\ LET r == LoopBody(resource_times, operation, events[idx + 1])
       IN  /\ resource_times' = r.rt
           /\ idx' = IF r.raise = "" THEN idx + 1 ELSE idx
           /\ pc' = IF r.raise = "" THEN "for_events" ELSE r.raise
    /\ UNCHANGED <<entry, operation, next_token, all_events, requests, responses,
                   events, sorted_resources, output>>

\* the events are exhausted: the durations are computed
ComputeDurations ==
    /\ pc = "for_events"
    /\ idx = Len(events)
    /\ LET r == DurationLoop(resource_times)
       IN  /\ resource_times' = r.rt
           /\ pc' = IF r.raise = "" THEN "sort" ELSE r.raise
    /\ UNCHANGED <<entry, operation, next_token, all_events, requests, responses,
                   events, idx, sorted_resources, output>>

\* the records are sorted and returned
SortResources ==
    /\ pc = "sort"
    /\ sorted_resources' = SortedByDuration(resource_times)
    /\ pc' = "returned"
    /\ UNCHANGED <<entry, operation, next_token, all_events, requests, responses,
                   events, idx, resource_times, output>>

NextAnalyzer == ProcessEvent \/ ComputeDurations \/ SortResources

\* a direct call find_resources_with_longest_time(events, operation)
InitAnalyzer ==
    /\ entry = "find_resources_with_longest_time"
    /\ pc = "for_events"
    /\ operation \in Operations
    /\ events \in SeqsUpTo(StackEvent, MaxEvents)
    /\ next_token = NoToken
    /\ all_events = <<>>
    /\ requests = <<>>
    /\ responses = <<>>
    /\ idx = 0
    /\ resource_times = <<>>
    /\ sorted_resources = <<>>
    /\ output = <<>>

SpecAnalyzer == InitAnalyzer /\ [][NextAnalyzer]_vars

---------------------------------------------------------------------------
(* get_all_events *)

Tokens == {"A", "B"}

Pages == SeqsUpTo(StackEvent, MaxPageLen)

\* what describe_stack_events can answer: a page, with or without a NextToken
Responses ==
    [StackEvents : Pages] \cup [StackEvents : Pages, NextToken : Tokens \cup {""}]

\* a faulty variant of Truthy: only None ends the loop (`next_token is not None`)
TruthyNotNone(t) == t /= NoToken

\* `if next_token` / `if not next_token`: None and the empty string are false
Truthy(t) == t /= NoToken /\ t /= ""

\* the NextToken the request carries; NoToken: the request carries none
TokenSent(t) == IF Truthy(t) THEN t ELSE NoToken

\* a faulty variant of OnRequestError: the exception is swallowed and the loop is left
OnRequestErrorSwallowed(p) == "analyze_events"

\* where the run goes when describe_stack_events raises: nothing catches it
OnRequestError(p) == "ClientError"

\* a faulty variant of Extend: the page replaces what was accumulated
ExtendReplacing(acc, response) == DictGet(response, "StackEvents", <<>>)

\* all_events.extend(events)
Extend(acc, response) == acc \o DictGet(response, "StackEvents", <<>>)

\* one iteration of the while loop: a request, then its answer or its failure;
\* on the break all_events is returned to calculate_times, which passes it on
DescribeStackEvents ==
    /\ pc = "get_all_events"
    /\ Len(requests) < MaxRequests
    /\ requests' = Append(requests, TokenSent(next_token))
    /\ \E failed \in BOOLEAN, response \in Responses :
          IF failed
          THEN /\ response = [StackEvents |-> <<>>]
               /\ pc' = OnRequestError(pc)
               /\ UNCHANGED <<next_token, all_events, responses, events>>
          ELSE /\ responses' = Append(responses, response)
               /\ all_events' = Extend(all_events, response)
               /\ next_token' = DictGet(response, "NextToken", NoToken)
               /\ IF Truthy(next_token')
                  THEN /\ pc' = "get_all_events"
                       /\ UNCHANGED events
                  ELSE /\ pc' = "analyze_events"
                       /\ events' = all_events'
    /\ UNCHANGED <<entry, operation, idx, resource_times, sorted_resources, output>>

\* get_all_events against a service that answers every request and gives a
\* response without a token at the latest to request MaxRequests
AnsweredRequest ==
    /\ DescribeStackEvents
    /\ pc' /= "ClientError"
    /\ Len(requests') = MaxRequests => pc' /= "get_all_events"

---------------------------------------------------------------------------
(* analyze_events, calculate_times *)

InvalidOperationLine == [kind |-> "invalid_operation"]

HeaderLine(op) == [kind |-> "header", operation |-> op]

ResourceLine(item) ==
    [kind |-> "resource", resource_id |-> item[1], seconds |-> item[2].duration]

\* the lines analyze_events prints for a result
Report(op, sorted) == <<HeaderLine(op)>> \o [i \in DOMAIN sorted |-> ResourceLine(sorted[i])]

\* analyze_events up to the call of find_resources_with_longest_time
AnalyzeEvents ==
    /\ pc = "analyze_events"
    /\ IF operation \notin ValidOperations
       THEN /\ output' = Append(output, InvalidOperationLine)
            /\ pc' = "exit"
       ELSE /\ pc' = "for_events"
            /\ UNCHANGED output
    /\ UNCHANGED <<entry, operation, next_token, all_events, requests, responses,
                   events, idx, resource_times, sorted_resources>>

\* analyze_events after the call returned: the report is printed
PrintReport ==
    /\ pc = "returned"
    /\ entry = "calculate_times"
    /\ output' = output \o Report(operation, sorted_resources)
    /\ pc' = "exit"
    /\ UNCHANGED <<entry, operation, next_token, all_events, requests, responses,
                   events, idx, resource_times, sorted_resources>>

\* a run of calculate_times(stack_name, region, operation)
Init ==
    /\ entry = "calculate_times"
    /\ pc = "get_all_events"
    /\ operation \in Operations
    /\ next_token = NoToken
    /\ all_events = <<>>
    /\ requests = <<>>
    /\ responses = <<>>
    /\ events = <<>>
    /\ idx = 0
    /\ resource_times = <<>>
    /\ sorted_resources = <<>>
    /\ output = <<>>

Next ==
    \/ DescribeStackEvents
    \/ AnalyzeEvents
    \/ ProcessEvent
    \/ ComputeDurations
    \/ SortResources
    \/ PrintReport

Spec == Init /\ [][Next]_vars

\* get_all_events alone, up to its return.  The program is sequential and the
\* service answers each request, so the loop always takes its next iteration:
\* weak fairness of the one action.
SpecFetcher == Init /\ [][AnsweredRequest]_vars /\ WF_vars(AnsweredRequest)

---------------------------------------------------------------------------
(* The end-to-end scenario: its four events, taken in every order *)

Scenario(T0) ==
    << Event("R1", CREATE_IN_PROGRESS, T0),
       Event("R2", CREATE_IN_PROGRESS, T0 + 1),
       Event("R1", CREATE_COMPLETE, T0 + 5),
       Event("R2", CREATE_COMPLETE, T0 + 2) >>

Permutations(s) ==
    {[i \in DOMAIN s |-> s[p[i]]] :
        p \in {q \in [DOMAIN s -> DOMAIN s] : \A i, j \in DOMAIN s : q[i] = q[j] => i = j}}

InitScenario ==
    /\ entry = "find_resources_with_longest_time"
    /\ pc = "for_events"
    /\ operation \in Operations
    /\ \E T0 \in 0..MaxT0 : events \in Permutations(Scenario(T0))
    /\ next_token = NoToken
    /\ all_events = <<>>
    /\ requests = <<>>
    /\ responses = <<>>
    /\ idx = 0
    /\ resource_times = <<>>
    /\ sorted_resources = <<>>
    /\ output = <<>>

SpecScenario == InitScenario /\ [][NextAnalyzer]_vars

---------------------------------------------------------------------------
(* Vocabulary of the properties *)

Errors == {"TypeError", "ValueError", "KeyError", "ClientError"}

\* find_resources_with_longest_time has returned or raised
Finished == pc \in {"returned", "exit"} \cup Errors

\* positions of the events of resource r with status s
Positions(r, s) ==
    {i \in DOMAIN events :
        events[i].LogicalResourceId = r /\ events[i].ResourceStatus = s}

InProgressStatus == StatusPair(operation)[1]
CompleteStatus == StatusPair(operation)[2]

\* the returned list as (resource_id, duration) pairs
Pairs(sorted) == [i \in DOMAIN sorted |-> <<sorted[i][1], sorted[i][2].duration>>]

MaxOf(S) == CHOOSE x \in S : \A y \in S : y <= x

\* a record with an unset timestamp
Partial(times) == times.start_time = None \/ times.end_time = None

\* an unset timestamp replaced by the minimum representable timestamp
OrMin(t) == IF t = None THEN datetime_min ELSE t

RECURSIVE ConcatPages(_)
ConcatPages(rs) ==
    IF rs = <<>> THEN <<>> ELSE rs[1].StackEvents \o ConcatPages(Tail(rs))

\* get_all_events has returned
FetchReturned == pc \notin {"get_all_events", "ClientError"}

\* a describe_stack_events call has raised: a request without a response
RequestFailed == Len(requests) > Len(responses)

---------------------------------------------------------------------------
(* C1 *)

\* C1: for the events [(R1, CREATE_IN_PROGRESS, T0), (R2, CREATE_IN_PROGRESS, T0+1),
\* (R1, CREATE_COMPLETE, T0+5), (R2, CREATE_COMPLETE, T0+2)] in that order and
\* operation create, the function returns exactly R1 with 5 seconds, then R2
\* with 1 second.
C1_EndToEndScenario ==
    \A T0 \in 0..MaxT0 :
        (operation = "create" /\ events = Scenario(T0) /\ Finished)
        => /\ pc = "returned"
           /\ Pairs(sorted_resources) = << <<"R1", 5>>, <<"R2", 1>> >>

---------------------------------------------------------------------------
(* C2 *)

\* C2: a resource with exactly one in-progress event at T1 and exactly one
\* complete event at T2 > T1 of the selected operation is reported with the
\* duration T2 - T1, whatever else the event sequence holds.
C2_ExactDuration ==
    \A r \in Resources : \A i, j \in DOMAIN events :
        ( /\ operation \in ValidOperations
          /\ Finished
          /\ Positions(r, InProgressStatus) = {i}
          /\ Positions(r, CompleteStatus) = {j}
          /\ events[j].Timestamp > events[i].Timestamp )
        => /\ pc = "returned"
           /\ In(r, sorted_resources)
           /\ Lookup(sorted_resources, r).duration
                = events[j].Timestamp - events[i].Timestamp

---------------------------------------------------------------------------
(* C3 *)

\* C3: for a resource with two in-progress events at T1 < T3 and one complete
\* event, the start_time of the returned record is T1, the earliest, in every
\* arrival order of the two in-progress events.
C3_EarliestStart ==
    \A r \in Resources : \A i, j, k \in DOMAIN events :
        ( /\ operation \in ValidOperations
          /\ pc = "returned"
          /\ Positions(r, InProgressStatus) = {i, j}
          /\ events[i].Timestamp < events[j].Timestamp
          /\ Positions(r, CompleteStatus) = {k} )
        => Lookup(sorted_resources, r).start_time = events[i].Timestamp

---------------------------------------------------------------------------
(* C4 *)

\* the complete events of r among the events processed so far
CompletesProcessed(r) == {i \in Positions(r, CompleteStatus) : i <= idx}

\* C4: the end_time recorded for a resource is the timestamp of the complete
\* event of the selected operation that was processed last in input order,
\* at every point of the loop and in the returned list: the last write wins,
\* not the later timestamp.
C4_LastWriteWins ==
    \A r \in Resources :
        (operation \in ValidOperations /\ CompletesProcessed(r) /= {})
        => /\ In(r, resource_times)
           /\ Lookup(resource_times, r).end_time
                = events[MaxOf(CompletesProcessed(r))].Timestamp
           /\ pc = "returned"
                => Lookup(sorted_resources, r).end_time
                     = events[MaxOf(CompletesProcessed(r))].Timestamp

\* a returned run with one in-progress event and two complete events of one
\* resource, the later timestamp T4 processed before the earlier T2: end_time is T2
C4_Witness ==
    \E r \in Resources : \E i, j, k \in DOMAIN events :
        /\ operation \in ValidOperations
        /\ pc = "returned"
        /\ Positions(r, InProgressStatus) = {i}
        /\ Positions(r, CompleteStatus) = {j, k}
        /\ j < k
        /\ events[j].Timestamp > events[k].Timestamp
        /\ Lookup(sorted_resources, r).end_time = events[k].Timestamp

---------------------------------------------------------------------------
(* C5 *)

---------------------------------------------------------------------------
(* C6 *)

\* C6 as stated: the returned list is sorted by duration strictly descending.
C6_StrictlyDescending ==
    pc = "returned"
    => \A i \in 1..(Len(sorted_resources) - 1) :
          sorted_resources[i][2].duration > sorted_resources[i + 1][2].duration

\* C6 as amended: the returned list is sorted by duration descending, each
\* duration being greater than or equal to the one that follows it.
C6_Descending ==
    pc = "returned"
    => \A i \in 1..(Len(sorted_resources) - 1) :
          sorted_resources[i][2].duration >= sorted_resources[i + 1][2].duration

\* a returned list of two entries with different durations, the record of the
\* larger one inserted second
C6_Witness ==
    /\ pc = "returned"
    /\ Len(sorted_resources) = 2
    /\ sorted_resources[1][2].duration > sorted_resources[2][2].duration
    /\ resource_times[1][1] = sorted_resources[2][1]

---------------------------------------------------------------------------
(* C7 *)

\* C7: when get_all_events returns, its result is the concatenation of the
\* pages in page order, there were as many requests as pages, the first request
\* carried no token and every later request carried the token of the response
\* before it; the last response carried no token and every earlier one did.
C7_Pagination ==
    FetchReturned
    => /\ all_events = ConcatPages(responses)
       /\ events = all_events
       /\ Len(requests) = Len(responses)
       /\ requests[1] = NoToken
       /\ \A i \in 2..Len(requests) :
             /\ "NextToken" \in DOMAIN responses[i - 1]
             /\ requests[i] = responses[i - 1].NextToken
             /\ requests[i] /= NoToken
       /\ ~Truthy(DictGet(responses[Len(responses)], "NextToken", NoToken))

\* three non-empty pages: token A, then B, then none
C7_Witness ==
    /\ FetchReturned
    /\ Len(responses) = 3
    /\ DictGet(responses[1], "NextToken", NoToken) = "A"
    /\ DictGet(responses[2], "NextToken", NoToken) = "B"
    /\ "NextToken" \notin DOMAIN responses[3]
    /\ \A i \in 1..3 : responses[i].StackEvents /= <<>>
    /\ responses[1].StackEvents /= responses[3].StackEvents
    /\ requests = <<NoToken, "A", "B">>
    /\ Len(all_events) = 3

---------------------------------------------------------------------------
(* C8 *)

\* C8: when the input is exhausted, a record with an unset start_time or
\* end_time does not make the function fail: the resource is in the output,
\* its duration computed with the minimum timestamp in place of the unset one.
C8_PartialRecordIncluded ==
    \A r \in Resources :
        ( /\ operation \in ValidOperations
          /\ idx = Len(events)
          /\ Finished
          /\ In(r, resource_times)
          /\ Partial(Lookup(resource_times, r)) )
        => /\ pc \in {"returned", "exit"}
           /\ In(r, sorted_resources)
           /\ Lookup(sorted_resources, r).duration
                = OrMin(Lookup(resource_times, r).end_time)
                  - OrMin(Lookup(resource_times, r).start_time)

---------------------------------------------------------------------------
(* C9 *)

\* C9: when the fetch succeeded and the operation is create or delete, the run
\* ends without an error, the report (header and one line per resource) printed.
C9_CompletesNormally ==
    (FetchReturned /\ operation \in ValidOperations)
    => /\ pc \notin Errors
       /\ pc = "exit" => output = Report(operation, sorted_resources)

---------------------------------------------------------------------------
(* C10 *)

\* C10: once a describe_stack_events call has failed, on the first page or a
\* later one, the run has ended with that error: the failed request is the last
\* one, nothing is printed and the analysis has not started.
C10_FetchFailurePropagates ==
    RequestFailed
    => /\ pc = "ClientError"
       /\ Len(requests) = Len(responses) + 1
       /\ output = <<>>
       /\ events = <<>>
       /\ idx = 0
       /\ resource_times = <<>>
       /\ sorted_resources = <<>>

\* a failure on the third request, two non-empty pages already accumulated
C10_Witness ==
    /\ RequestFailed
    /\ pc = "ClientError"
    /\ Len(responses) = 2
    /\ Len(all_events) = 2
    /\ output = <<>>

---------------------------------------------------------------------------
(* Vocabulary of the steps of the loop *)

\* the event the loop takes next
NextEvent == events[idx + 1]

\* the loop is about to take an event with status s of the selected operation
Taking(s) ==
    /\ pc = "for_events"
    /\ idx < Len(events)
    /\ operation \in ValidOperations
    /\ NextEvent.ResourceStatus = s

---------------------------------------------------------------------------
(* C11 *)

\* C11: an in-progress event of the selected operation for a resource without
\* a record creates the record, start_time the event's timestamp and end_time
\* unset, and the loop goes on with the next event.
C11_UnseenToStarted ==
    [][ \A r \in Resources :
          ( /\ Taking(InProgressStatus)
            /\ NextEvent.LogicalResourceId = r
            /\ ~In(r, resource_times) )
          => /\ pc' = "for_events"
             /\ idx' = idx + 1
             /\ resource_times'
                  = Append(resource_times,
                           <<r, [start_time |-> NextEvent.Timestamp, end_time |-> None]>>)
      ]_vars

---------------------------------------------------------------------------
(* C12 *)

\* C12: a complete event of the selected operation for a resource without a
\* record creates the record, start_time unset and end_time the event's
\* timestamp; for a resource with a record it sets end_time to the event's
\* timestamp and leaves start_time, the other records and their order as they are.
C12_CompleteEvent ==
    [][ \A r \in Resources :
          (Taking(CompleteStatus) /\ NextEvent.LogicalResourceId = r)
          => /\ pc' = "for_events"
             /\ idx' = idx + 1
             /\ IF ~In(r, resource_times)
                THEN resource_times'
                       = Append(resource_times,
                                <<r, [start_time |-> None, end_time |-> NextEvent.Timestamp]>>)
                ELSE /\ Len(resource_times') = Len(resource_times)
                     /\ \A i \in DOMAIN resource_times :
                           IF resource_times[i][1] = r
                           THEN /\ resource_times'[i][1] = r
                                /\ resource_times'[i][2].end_time = NextEvent.Timestamp
                                /\ resource_times'[i][2].start_time
                                     = resource_times[i][2].start_time
                           ELSE resource_times'[i] = resource_times[i]
      ]_vars

\* three events of one resource processed: a complete event created the record,
\* an in-progress event set start_time, a complete event with another timestamp
\* replaced end_time and left start_time
C12_Witness ==
    \E r \in Resources :
        /\ operation \in ValidOperations
        /\ pc = "for_events"
        /\ idx = 3
        /\ \A i \in 1..3 : events[i].LogicalResourceId = r
        /\ events[1].ResourceStatus = CompleteStatus
        /\ events[2].ResourceStatus = InProgressStatus
        /\ events[3].ResourceStatus = CompleteStatus
        /\ events[3].Timestamp /= events[1].Timestamp
        /\ resource_times
             = << <<r, [start_time |-> events[2].Timestamp,
                        end_time |-> events[3].Timestamp]>> >>

---------------------------------------------------------------------------
(* C13 *)

\* the events whose status is one of the two the operation selects
RemoveIgnored(evs, op) ==
    SelectSeq(evs, LAMBDA e : e.ResourceStatus \in {StatusPair(op)[1], StatusPair(op)[2]})

\* how the call ended: the exception raised, if any, and the list returned
Outcome == [raise |-> IF pc \in Errors THEN pc ELSE "", value |-> sorted_resources]

\* C13: an event whose status is neither the in-progress nor the complete
\* status of the selected operation leaves the resource_id -> record mapping
\* unchanged and the loop goes on; the call ends as it ends on the event
\* sequence with all such events removed.
C13_OtherStatusesIgnored ==
    /\ [][ ( /\ pc = "for_events"
             /\ idx < Len(events)
             /\ operation \in ValidOperations
             /\ NextEvent.ResourceStatus \notin {InProgressStatus, CompleteStatus} )
           => /\ resource_times' = resource_times
              /\ pc' = "for_events"
              /\ idx' = idx + 1
         ]_vars
    /\ []( (operation \in ValidOperations /\ Finished)
           => Outcome = find_resources_with_longest_time(
                            RemoveIgnored(events, operation), operation) )

\* a returned, non-empty result for an input in which a status of the other
\* operation, for a resource of the result, stands between two selected events
C13_Witness ==
    /\ operation \in ValidOperations
    /\ pc = "returned"
    /\ \E i \in 2..(Len(events) - 1) :
          /\ events[i].ResourceStatus
               \in {CREATE_IN_PROGRESS, CREATE_COMPLETE, DELETE_IN_PROGRESS, DELETE_COMPLETE}
                   \ {InProgressStatus, CompleteStatus}
          /\ In(events[i].LogicalResourceId, sorted_resources)
          /\ events[i - 1].ResourceStatus = CompleteStatus
          /\ events[i + 1].ResourceStatus = InProgressStatus

---------------------------------------------------------------------------
(* C14 *)

\* the state of resource r in a mapping: Unseen, Started or Completed
StateOf(rt, r) ==
    IF ~In(r, rt) THEN "Unseen"
    ELSE IF Lookup(rt, r).end_time = None THEN "Started"
    ELSE "Completed"

\* C14: every step keeps each resource on the listed transitions: a record is
\* never removed, an end_time once set is never unset (no step leaves
\* Completed, none goes back to Unseen), and a start_time once set is never
\* unset and never moves to a later timestamp.
C14_ListedTransitionsOnly ==
    [][ \A r \in Resources :
          /\ StateOf(resource_times, r) = "Started"
               => StateOf(resource_times', r) \in {"Started", "Completed"}
          /\ StateOf(resource_times, r) = "Completed"
               => StateOf(resource_times', r) = "Completed"
          /\ (In(r, resource_times) /\ Lookup(resource_times, r).start_time /= None)
               => /\ Lookup(resource_times', r).start_time /= None
                  /\ Lookup(resource_times', r).start_time
                       <= Lookup(resource_times, r).start_time
      ]_vars

---------------------------------------------------------------------------
(* C15 *)

\* the position of the first event of the selected operation for resource r
FirstSelected(r) ==
    LET S == Positions(r, InProgressStatus) \cup Positions(r, CompleteStatus)
    IN  CHOOSE i \in S : \A j \in S : i <= j

\* C15: entries of the returned list with equal durations stand in encounter
\* order: the resource whose first event of the selected operation comes
\* earlier in the input comes first.
C15_TiesInEncounterOrder ==
    (operation \in ValidOperations /\ pc = "returned")
    => \A i, j \in DOMAIN sorted_resources :
          ( /\ i < j
            /\ sorted_resources[i][2].duration = sorted_resources[j][2].duration )
          => FirstSelected(sorted_resources[i][1]) < FirstSelected(sorted_resources[j][1])

\* a returned list of two entries with equal durations, R2 met first in the input
C15_Witness ==
    /\ operation \in ValidOperations
    /\ pc = "returned"
    /\ Len(sorted_resources) = 2
    /\ sorted_resources[1][2].duration = sorted_resources[2][2].duration
    /\ sorted_resources[1][1] = "R2"
    /\ events[1].LogicalResourceId = "R2"

\* no step removes a record or unsets an end_time: the part of the listed
\* transitions that every step does keep
RecordsAndEndTimesKept ==
    [][ \A r \in Resources :
          /\ In(r, resource_times) => In(r, resource_times')
          /\ StateOf(resource_times, r) = "Completed"
               => StateOf(resource_times', r) = "Completed"
      ]_vars

---------------------------------------------------------------------------
(* C16 *)

\* a response that carries no continuation token, or an empty one
NoMoreToken(response) ==
    "NextToken" \notin DOMAIN response \/ response.NextToken = ""

\* C16: when every request is answered and the service gives a response
\* without a token at the latest to request MaxRequests, get_all_events
\* eventually returns; it makes one request per response, a response without
\* a token (or with an empty one) is always the last one and no request
\* follows it, and the events of that last page end the result.
C16_FetchTerminates ==
    /\ <>FetchReturned
    /\ [](/\ Len(requests) = Len(responses)
          /\ \A i \in 1..(Len(responses) - 1) : ~NoMoreToken(responses[i]))
    /\ [](FetchReturned
          => LET last == responses[Len(responses)].StackEvents
             IN  /\ NoMoreToken(responses[Len(responses)])
                 /\ Len(all_events) >= Len(last)
                 /\ SubSeq(all_events, Len(all_events) - Len(last) + 1, Len(all_events))
                      = last
                 /\ events = all_events)
    /\ [][FetchReturned => (requests' = requests /\ all_events' = all_events)]_vars

\* a fetch that returned on its third response, which carried an empty token
\* and a non-empty page
C16_Witness ==
    /\ FetchReturned
    /\ Len(responses) = 3
    /\ "NextToken" \in DOMAIN responses[3]
    /\ responses[3].NextToken = ""
    /\ responses[3].StackEvents /= <<>>
    /\ all_events[Len(all_events)] = responses[3].StackEvents[1]
    /\ Len(requests) = 3

---------------------------------------------------------------------------
(* C17 *)

\* the resources with at least one event of the selected operation
SelectedResources ==
    {r \in Resources :
        Positions(r, InProgressStatus) \cup Positions(r, CompleteStatus) /= {}}

\* C17: the returned list has exactly one entry for each resource that has an
\* event with the in-progress or complete status of the selected operation, no
\* entry for any other resource, and every entry carries a duration.
C17_OneEntryPerResource ==
    (operation \in ValidOperations /\ pc = "returned")
    => /\ Keys(sorted_resources) = SelectedResources
       /\ Len(sorted_resources) = Cardinality(SelectedResources)
       /\ \A i \in DOMAIN sorted_resources : "duration" \in DOMAIN sorted_resources[i][2]

\* a returned list with one entry, the input holding an event of the other
\* resource whose status is not selected
C17_Witness ==
    /\ operation \in ValidOperations
    /\ pc = "returned"
    /\ Len(sorted_resources) = 1
    /\ \E i \in DOMAIN events : ~In(events[i].LogicalResourceId, sorted_resources)
    /\ Len(events) = 3

---------------------------------------------------------------------------
(* C18 *)

\* newest-first input: for each resource every complete event precedes every
\* in-progress event of the selected operation, and the in-progress events
\* arrive with non-increasing timestamps
NewestFirst ==
    \A r \in Resources :
        /\ \A i \in Positions(r, CompleteStatus), j \in Positions(r, InProgressStatus) :
              i < j
        /\ \A i, j \in Positions(r, InProgressStatus) :
              i < j => events[i].Timestamp >= events[j].Timestamp

\* what C18 says of the records of a returned list
NewestFirstRecords ==
    \A r \in Resources :
        /\ Positions(r, InProgressStatus) /= {}
             => /\ In(r, sorted_resources)
                /\ Lookup(sorted_resources, r).start_time
                     = events[MaxOf(Positions(r, InProgressStatus))].Timestamp
                /\ \A i \in Positions(r, InProgressStatus) :
                      Lookup(sorted_resources, r).start_time <= events[i].Timestamp
        /\ Positions(r, CompleteStatus) /= {}
             => /\ In(r, sorted_resources)
                /\ Lookup(sorted_resources, r).end_time
                     = events[MaxOf(Positions(r, CompleteStatus))].Timestamp

\* C18: on a newest-first input the call returns without error, each
\* resource's start_time is the timestamp of the last in-progress event
\* processed, which is its earliest, and its end_time is the timestamp of the
\* last complete event processed.
C18_NewestFirst ==
    (operation \in ValidOperations /\ NewestFirst /\ Finished)
    => (pc = "returned" /\ NewestFirstRecords)

\* the same for the newest-first inputs in which every resource with a selected
\* event has both a complete and an in-progress event
NewestFirstBothKinds ==
    ( /\ operation \in ValidOperations
      /\ NewestFirst
      /\ Finished
      /\ \A r \in SelectedResources :
            /\ Positions(r, InProgressStatus) /= {}
            /\ Positions(r, CompleteStatus) /= {} )
    => (pc = "returned" /\ NewestFirstRecords)

====
